---------------------------- MODULE Spec2Model ----------------------------
(***************************************************************************)
(* Worker-side job execution engine of the subtitle generator:             *)
(*   worker/src/index.ts   ConcurrencyManager, processJob, startWorker     *)
(*   api-server/src/index.ts   POST /jobs                                  *)
(* The coordination store (Redis) is the shared state; every store         *)
(* command is one atomic step.  Local work that follows a command (file    *)
(* system, blob store, ffmpeg) belongs to the step of that command.        *)
(***************************************************************************)
EXTENDS Integers, Sequences, FiniteSets, TLC

(* ------------------------------ bounds --------------------------------- *)

\* worker processes running startWorker
NumWorkers ==
    2

\* job ids POST /jobs can mint
NumJobs ==
    2

\* outages of the coordination store in one behaviour; while the store is
\* down every command sent to it is rejected with an error; a failure of
\* fs.rm draws on the same budget
MaxOutages ==
    1

\* capacities of semaphore:global / semaphore:ai, scaled down from the
\* defaults 5 and 2 of worker/src/index.ts:13-14 to the size of the fleet
MAX_GLOBAL_CONCURRENCY ==
    2

MAX_AI_CONCURRENCY ==
    1

\* retries a job gets in the specifications of a fleet of several workers,
\* scaled down from MAX_RETRIES
RetryDepth ==
    1

\* the step of the clock, in milliseconds
TickMs ==
    1000

(* ------------------------- program constants --------------------------- *)

MAX_RETRIES ==
    3

INITIAL_BACKOFF_MS ==
    2000

Workers ==
    1..NumWorkers

Jobs ==
    1..NumJobs

(* ------------------------------- state --------------------------------- *)

VARIABLES
    limit,        \* ConcurrencyManager.limit of the two limiters
    maxRetries,   \* the deployment's MAX_RETRIES
    timed,        \* the passing of time is part of the behaviour
    semaphore,    \* lists semaphore:global, semaphore:ai (all elements 'token')
    queueHigh,    \* list queue:high, head = left end
    queueLow,     \* list queue:low
    queueDlq,     \* list queue:dlq
    processing,   \* set jobs:processing
    job,          \* hashes job:{id}
    posting,      \* POST /jobs requests between their hSet and their lPush
    timers,       \* pending setTimeout callbacks of the retry path
    tmpDirs,      \* per worker: the job ids whose /tmp/{jobId} exists
    pc,           \* per worker: the store command it is about to issue
    jobId,        \* per worker: processJob's jobId
    errorMessage, \* per worker: the error in flight / processJob's errorMessage
    transcript,   \* per worker: processJob's transcript
    localRetry,   \* per worker: retryCount returned by hIncrBy
    storeDown,    \* the coordination store rejects commands
    outages,      \* outages of the store so far
    holdsGlobal,  \* history: worker popped a global token, pushed none since
    holdsAi,      \* history: worker popped an AI token, pushed none since
    highAtAcquire,\* history: queue:high was non-empty when acquire() returned
    popped,       \* history: per worker, the key its brPop has just served
    attempts,     \* history: per job, number of times a worker popped it
    requeued,     \* history: per job, number of pushes by a retry timer
    outcome,      \* history: per worker, how the current attempt ended
    cleanup,      \* history: per worker, how the finally block of line 224 went
    incrs,        \* history: per worker, hIncrBy calls done in this attempt
    arrival,      \* history: per queue, the waiting ids in order of their push
    lowBefore,    \* history: per job pushed on queue:high, what queue:low held
    srtStep,      \* the formatter's position: idle, format, writeFile
    srtTranscript,\* formatToSrt's argument
    srtContent    \* line 168: srtContent

vars ==
    << limit, maxRetries, timed, semaphore, queueHigh, queueLow, queueDlq,
       processing, job, posting, timers, tmpDirs, pc, jobId, errorMessage,
       transcript, localRetry, storeDown, outages, holdsGlobal, holdsAi,
       highAtAcquire, popped, attempts, requeued, outcome, cleanup, incrs,
       arrival, lowBefore, srtStep, srtTranscript, srtContent >>

\* groups of variables that an action leaves alone together
config ==
    << limit, maxRetries, timed >>

storeHealth ==
    << storeDown, outages >>

submitVars ==
    << posting, lowBefore >>

jobQueues ==
    << queueHigh, queueLow, queueDlq, arrival >>

locals ==
    << jobId, errorMessage, transcript, localRetry >>

popInfo ==
    << highAtAcquire, popped >>

attemptHistory ==
    << outcome, cleanup >>

formatter ==
    << srtStep, srtTranscript, srtContent >>

(* --------------------------- store commands ---------------------------- *)

\* DEL key, RPUSH key token x limit: ConcurrencyManager.initialize
TokenList(n) ==
    [i \in 1..n |-> "token"]

\* a faulty LPUSH that adds at the right end, where BRPOP takes from
LPushAtRight(list, v) ==
    Append(list, v)

\* LPUSH: the new element becomes the left end (head)
LPush(list, v) ==
    <<v>> \o list

\* RPUSH: the new element becomes the right end
RPush(list, v) ==
    Append(list, v)

\* the element (B)RPOP returns: the right end
RPopElement(list) ==
    list[Len(list)]

\* a faulty pop that leaves the element in the list
RPopRestKeeps(list) ==
    list

RPopRest(list) ==
    SubSeq(list, 1, Len(list) - 1)

\* a faulty BRPOP that scans its keys in the reverse order
BrPopKeyLowFirst(high, low) ==
    IF low # <<>> THEN "queue:low" ELSE "queue:high"

\* BRPOP [queue:high, queue:low]: the first non-empty key in the given order
BrPopKey(high, low) ==
    IF high # <<>> THEN "queue:high" ELSE "queue:low"

Occurrences(list, v) ==
    Cardinality({i \in 1..Len(list) : list[i] = v})

Members(list) ==
    {list[i] : i \in 1..Len(list)}

(* ------------------------------ job hash ------------------------------- *)

NoKey ==
    [stem |-> 0, ext |-> ""]

\* blob keys: {stem}.{ext}; the uploaded video of job j is j.mp4
VideoKey(j) ==
    [stem |-> j, ext |-> "mp4"]

\* `${path.parse(videoS3Key).name}.mp3` / .srt
WithExt(key, e) ==
    [stem |-> key.stem, ext |-> e]

\* a hash that does not exist: every field absent
NoJob ==
    [status |-> "", videoUrl |-> NoKey, priority |-> "", retryCount |-> 0,
     error |-> "", audioUrl |-> NoKey, subtitleUrl |-> NoKey]

HSet(j, field, value) ==
    [job EXCEPT ![j] = [@ EXCEPT ![field] = value]]

\* a faulty HINCRBY that adds the delta twice
HIncrByTwice(j, field, delta) ==
    [job EXCEPT ![j] = [@ EXCEPT ![field] = @ + 2 * delta]]

HIncrBy(j, field, delta) ==
    [job EXCEPT ![j] = [@ EXCEPT ![field] = @ + delta]]

Pow2(n) ==
    IF n <= 0 THEN 1
    ELSE IF n = 1 THEN 2
    ELSE IF n = 2 THEN 4
    ELSE IF n = 3 THEN 8
    ELSE 16

\* a faulty backoff that grows linearly
BackoffDelayLinear(retryCount) ==
    retryCount * INITIAL_BACKOFF_MS

\* Math.pow(2, retryCount - 1) * INITIAL_BACKOFF_MS
BackoffDelay(retryCount) ==
    Pow2(retryCount - 1) * INITIAL_BACKOFF_MS

(* ------------------------------- Init ---------------------------------- *)

\* no brPop of the job queues has just completed
NoPop ==
    [key |-> "", high |-> 0, low |-> 0]

\* positions of a worker inside processJob (between the pop and the release)
InProcessJob ==
    {"sAdd", "hSetDownloading", "hGetVideoUrl", "hSetExtracting",
     "hSetAudioUrl", "aiAcquire", "hSetTranscribing", "transcribe",
     "aiRelease", "hSetSubtitleUrl", "hSetCompleted", "hIncrBy",
     "hSetRetry", "hSetRetryError", "hSetDlq", "hSetDlqError", "rPushDlq",
     "sRem"}

\* the state in which the worker processes `started` have just connected
\* (line 242), the processes `booted` have run their initialize() calls one
\* after the other, and the others are not deployed; lim: the capacities,
\* retries: the retry limit the fleet is built with
InitWith(started, booted, lim, retries) ==
    /\ limit = lim
    /\ maxRetries = retries
    /\ semaphore = IF booted = {} THEN [global |-> <<>>, ai |-> <<>>]
                   ELSE [global |-> TokenList(lim.global),
                         ai |-> TokenList(lim.ai)]
    /\ queueHigh = <<>>
    /\ queueLow = <<>>
    /\ queueDlq = <<>>
    /\ processing = {}
    /\ job = [j \in Jobs |-> NoJob]
    /\ posting = {}
    /\ timers = {}
    /\ tmpDirs = [w \in Workers |-> {}]
    /\ pc = [w \in Workers |-> IF w \in started THEN "delGlobal"
                               ELSE IF w \in booted THEN "acquire"
                               ELSE "off"]
    /\ jobId = [w \in Workers |-> 0]
    /\ errorMessage = [w \in Workers |-> ""]
    /\ transcript = [w \in Workers |-> "null"]
    /\ localRetry = [w \in Workers |-> 0]
    /\ storeDown = FALSE
    /\ outages = 0
    /\ holdsGlobal = [w \in Workers |-> FALSE]
    /\ holdsAi = [w \in Workers |-> FALSE]
    /\ highAtAcquire = [w \in Workers |-> FALSE]
    /\ popped = [w \in Workers |-> NoPop]
    /\ attempts = [j \in Jobs |-> 0]
    /\ requeued = [j \in Jobs |-> 0]
    /\ outcome = [w \in Workers |-> ""]
    /\ cleanup = [w \in Workers |-> ""]
    /\ incrs = [w \in Workers |-> 0]
    /\ arrival = [high |-> <<>>, low |-> <<>>]
    /\ lowBefore = [j \in Jobs |-> [pushed |-> {}, waiting |-> {}]]

\* no transcript is being formatted
NoFormatting ==
    /\ srtStep = "idle"
    /\ srtTranscript = << >>
    /\ srtContent = ""

Init ==
    /\ InitWith(Workers, {}, [global |-> MAX_GLOBAL_CONCURRENCY,
                              ai |-> MAX_AI_CONCURRENCY],
                RetryDepth)
    /\ timed = FALSE
    /\ NoFormatting

\* the coordination store accepts commands
StoreUp ==
    ~storeDown

(* ------------------------------ POST /jobs ----------------------------- *)

\* ids are minted in the order of the requests' hSet (randomUUID is fresh)
NextId ==
    Cardinality({j \in Jobs : job[j].status # ""}) + 1

QueueOf(priority) ==
    IF priority = "high" THEN "queue:high" ELSE "queue:low"

\* a faulty handler whose record lacks the videoUrl when the id is pushed
PostJobsHSetPartial(priority) ==
    /\ NextId \in Jobs
    /\ StoreUp
    /\ job' = [job EXCEPT ![NextId] =
                 [NoJob EXCEPT !.status = "queued",
                               !.priority = priority]]
    /\ posting' = posting \cup {NextId}
    /\ UNCHANGED << config, formatter, semaphore, queueHigh, queueLow,
                    queueDlq, processing, timers, tmpDirs, pc, locals,
                    storeHealth, holdsGlobal, holdsAi, popInfo, attempts,
                    requeued, attemptHistory, incrs, arrival, lowBefore >>

\* hSet(`job:${jobId}`, {id, videoUrl, status: 'queued', createdAt, priority})
PostJobsHSet(priority) ==
    /\ NextId \in Jobs
    /\ StoreUp
    /\ job' = [job EXCEPT ![NextId] =
                 [NoJob EXCEPT !.videoUrl = VideoKey(NextId),
                               !.status = "queued",
                               !.priority = priority]]
    /\ posting' = posting \cup {NextId}
    /\ UNCHANGED << config, formatter, semaphore, queueHigh, queueLow,
                    queueDlq, processing, timers, tmpDirs, pc, locals,
                    storeHealth, holdsGlobal, holdsAi, popInfo, attempts,
                    requeued, attemptHistory, incrs, arrival, lowBefore >>

\* lPush(jobQueue, jobId)
PostJobsLPush(j) ==
    /\ j \in posting
    /\ StoreUp
    /\ posting' = posting \ {j}
    /\ IF QueueOf(job[j].priority) = "queue:high"
       THEN /\ queueHigh' = LPush(queueHigh, j)
            /\ queueLow' = queueLow
            /\ arrival' = [arrival EXCEPT !.high = Append(@, j)]
            /\ lowBefore' = [lowBefore EXCEPT ![j] =
                 [pushed |-> {k \in Jobs : /\ job[k].status # ""
                                            /\ k \notin posting
                                            /\ job[k].priority = "low"},
                  waiting |-> {k \in Members(queueLow) : attempts[k] = 0}]]
       ELSE /\ queueLow' = LPush(queueLow, j)
            /\ queueHigh' = queueHigh
            /\ arrival' = [arrival EXCEPT !.low = Append(@, j)]
            /\ lowBefore' = lowBefore
    /\ UNCHANGED << config, formatter, semaphore, queueDlq, processing, job,
                    timers, tmpDirs, pc, jobId, errorMessage, transcript,
                    localRetry, storeHealth, holdsGlobal, holdsAi, popInfo,
                    attempts, requeued, attemptHistory, incrs >>

(* ------------------------ ConcurrencyManager --------------------------- *)

\* redis.del(queueName)
Del(list) ==
    <<>>

\* redis.rPush(queueName, Array(limit).fill('token'))
RPushTokens(list, n) ==
    list \o TokenList(n)

\* startWorker, line 254: Promise.all([globalLimiter.initialize(),
\* aiLimiter.initialize()]) issues, on the worker's one connection, DEL
\* semaphore:global, DEL semaphore:ai, RPUSH semaphore:global, RPUSH
\* semaphore:ai
InitDelGlobal(w) ==
    /\ pc[w] = "delGlobal"
    /\ StoreUp
    /\ semaphore' = [semaphore EXCEPT !.global = Del(@)]
    /\ pc' = [pc EXCEPT ![w] = "delAi"]
    /\ UNCHANGED << config, formatter, jobQueues, processing, job, submitVars,
                    timers, tmpDirs, locals, storeHealth, holdsGlobal,
                    holdsAi, popInfo, attempts, requeued, attemptHistory,
                    incrs >>

InitDelAi(w) ==
    /\ pc[w] = "delAi"
    /\ StoreUp
    /\ semaphore' = [semaphore EXCEPT !.ai = Del(@)]
    /\ pc' = [pc EXCEPT ![w] = "rPushGlobal"]
    /\ UNCHANGED << config, formatter, jobQueues, processing, job, submitVars,
                    timers, tmpDirs, locals, storeHealth, holdsGlobal,
                    holdsAi, popInfo, attempts, requeued, attemptHistory,
                    incrs >>

InitRPushGlobal(w) ==
    /\ pc[w] = "rPushGlobal"
    /\ StoreUp
    /\ semaphore' = [semaphore EXCEPT !.global = RPushTokens(@, limit.global)]
    /\ pc' = [pc EXCEPT ![w] = "rPushAi"]
    /\ UNCHANGED << config, formatter, jobQueues, processing, job, submitVars,
                    timers, tmpDirs, locals, storeHealth, holdsGlobal,
                    holdsAi, popInfo, attempts, requeued, attemptHistory,
                    incrs >>

InitRPushAi(w) ==
    /\ pc[w] = "rPushAi"
    /\ StoreUp
    /\ semaphore' = [semaphore EXCEPT !.ai = RPushTokens(@, limit.ai)]
    /\ pc' = [pc EXCEPT ![w] = "acquire"]
    /\ UNCHANGED << config, formatter, jobQueues, processing, job, submitVars,
                    timers, tmpDirs, locals, storeHealth, holdsGlobal,
                    holdsAi, popInfo, attempts, requeued, attemptHistory,
                    incrs >>

(* ----------------------------- worker loop ----------------------------- *)

\* line 268: await globalLimiter.acquire()  (brPop semaphore:global, 0)
Acquire(w) ==
    /\ pc[w] = "acquire"
    /\ StoreUp
    /\ semaphore.global # <<>>
    /\ semaphore' = [semaphore EXCEPT !.global = RPopRest(@)]
    /\ holdsGlobal' = [holdsGlobal EXCEPT ![w] = TRUE]
    /\ holdsAi' = holdsAi
    /\ highAtAcquire' = [highAtAcquire EXCEPT ![w] = (queueHigh # <<>>)]
    /\ pc' = [pc EXCEPT ![w] = "brPop"]
    /\ UNCHANGED << config, formatter, jobQueues, processing, job, submitVars,
                    timers, tmpDirs, locals, storeHealth, popped, attempts,
                    requeued, attemptHistory, incrs >>

\* the record of what queue:low held is dropped with the attempt of job j
Forget(j) ==
    IF j \in Jobs
    THEN [lowBefore EXCEPT ![j] = [pushed |-> {}, waiting |-> {}]]
    ELSE lowBefore

\* the list left when the first occurrence of v is taken out
RemoveFirst(list, v) ==
    LET i == CHOOSE k \in 1..Len(list) :
                 /\ list[k] = v
                 /\ \A m \in 1..(k - 1) : list[m] # v
    IN  SubSeq(list, 1, i - 1) \o SubSeq(list, i + 1, Len(list))

\* line 271: brPop(['queue:high', 'queue:low'], 0); result.element is jobId
BrPopJob(w) ==
    /\ pc[w] = "brPop"
    /\ StoreUp
    /\ queueHigh # <<>> \/ queueLow # <<>>
    /\ LET key == BrPopKey(queueHigh, queueLow)
           element == IF key = "queue:high" THEN RPopElement(queueHigh)
                      ELSE RPopElement(queueLow)
       IN  /\ queueHigh' = IF key = "queue:high" THEN RPopRest(queueHigh)
                           ELSE queueHigh
           /\ queueLow' = IF key = "queue:low" THEN RPopRest(queueLow)
                          ELSE queueLow
           /\ jobId' = [jobId EXCEPT ![w] = element]
           /\ attempts' = [attempts EXCEPT ![element] = @ + 1]
           /\ requeued' = requeued
           /\ arrival' = IF key = "queue:high"
                         THEN [arrival EXCEPT !.high = RemoveFirst(@, element)]
                         ELSE [arrival EXCEPT !.low = RemoveFirst(@, element)]
           /\ popped' = [popped EXCEPT ![w] =
                            [key |-> key, high |-> Len(queueHigh),
                             low |-> Len(queueLow)]]
    /\ highAtAcquire' = [highAtAcquire EXCEPT ![w] = FALSE]
    /\ pc' = [pc EXCEPT ![w] = "sAdd"]
    /\ UNCHANGED << config, formatter, semaphore, queueDlq, processing, job,
                    submitVars, timers, tmpDirs, errorMessage, transcript,
                    localRetry, storeHealth, holdsGlobal, holdsAi,
                    attemptHistory, incrs >>

\* line 292: await globalLimiter.release(), then the next iteration
Release(w) ==
    /\ pc[w] = "release"
    /\ StoreUp
    /\ semaphore' = [semaphore EXCEPT !.global = LPush(@, "token")]
    /\ holdsGlobal' = [holdsGlobal EXCEPT ![w] = FALSE]
    /\ holdsAi' = holdsAi
    /\ pc' = [pc EXCEPT ![w] = "acquire"]
    /\ lowBefore' = Forget(jobId[w])
    /\ jobId' = [jobId EXCEPT ![w] = 0]
    /\ errorMessage' = [errorMessage EXCEPT ![w] = ""]
    /\ transcript' = [transcript EXCEPT ![w] = "null"]
    /\ localRetry' = [localRetry EXCEPT ![w] = 0]
    /\ outcome' = [outcome EXCEPT ![w] = ""]
    /\ cleanup' = [cleanup EXCEPT ![w] = ""]
    /\ incrs' = [incrs EXCEPT ![w] = 0]
    /\ UNCHANGED << config, formatter, jobQueues, processing, job, posting,
                    timers, tmpDirs, storeHealth, popInfo, attempts,
                    requeued >>

\* lines 296-303: the loop's catch: release the global lock
LoopCatchRelease(w) ==
    /\ pc[w] = "loopCatch"
    /\ StoreUp
    /\ semaphore' = [semaphore EXCEPT !.global = LPush(@, "token")]
    /\ holdsGlobal' = [holdsGlobal EXCEPT ![w] = FALSE]
    /\ holdsAi' = holdsAi
    /\ pc' = [pc EXCEPT ![w] = "sleep"]
    /\ UNCHANGED << config, formatter, jobQueues, processing, job, submitVars,
                    timers, tmpDirs, locals, storeHealth, popInfo, attempts,
                    requeued, attemptHistory, incrs >>

\* a faulty loop that ends after the sleep
SleepThenExit(w) ==
    /\ pc[w] = "sleep"
    /\ pc' = [pc EXCEPT ![w] = "off"]
    /\ highAtAcquire' = [highAtAcquire EXCEPT ![w] = FALSE]
    /\ lowBefore' = Forget(jobId[w])
    /\ jobId' = [jobId EXCEPT ![w] = 0]
    /\ errorMessage' = [errorMessage EXCEPT ![w] = ""]
    /\ transcript' = [transcript EXCEPT ![w] = "null"]
    /\ localRetry' = [localRetry EXCEPT ![w] = 0]
    /\ outcome' = [outcome EXCEPT ![w] = ""]
    /\ cleanup' = [cleanup EXCEPT ![w] = ""]
    /\ incrs' = [incrs EXCEPT ![w] = 0]
    /\ UNCHANGED << config, formatter, semaphore, jobQueues, processing, job,
                    posting, timers, tmpDirs, storeHealth, holdsGlobal,
                    holdsAi, popped, attempts, requeued >>

\* line 304: setTimeout(res, 5000), then the next iteration
Sleep(w) ==
    /\ pc[w] = "sleep"
    /\ pc' = [pc EXCEPT ![w] = "acquire"]
    /\ highAtAcquire' = [highAtAcquire EXCEPT ![w] = FALSE]
    /\ lowBefore' = Forget(jobId[w])
    /\ jobId' = [jobId EXCEPT ![w] = 0]
    /\ errorMessage' = [errorMessage EXCEPT ![w] = ""]
    /\ transcript' = [transcript EXCEPT ![w] = "null"]
    /\ localRetry' = [localRetry EXCEPT ![w] = 0]
    /\ outcome' = [outcome EXCEPT ![w] = ""]
    /\ cleanup' = [cleanup EXCEPT ![w] = ""]
    /\ incrs' = [incrs EXCEPT ![w] = 0]
    /\ UNCHANGED << config, formatter, semaphore, jobQueues, processing, job,
                    posting, timers, tmpDirs, storeHealth, holdsGlobal,
                    holdsAi, popped, attempts, requeued >>

(* ------------------------------ processJob ----------------------------- *)

\* a failure raised inside the try block: control goes to the catch block,
\* whose first store command is the hIncrBy (lines 188-192)
Throw(w, message) ==
    /\ pc' = [pc EXCEPT ![w] = "hIncrBy"]
    /\ errorMessage' = [errorMessage EXCEPT ![w] = message]

Goto(w, next) ==
    /\ pc' = [pc EXCEPT ![w] = next]
    /\ errorMessage' = errorMessage

\* lines 92-95: sAdd('jobs:processing', jobId), then fs.mkdir(tempDir)
SAdd(w) ==
    /\ pc[w] = "sAdd"
    /\ StoreUp
    /\ processing' = processing \cup {jobId[w]}
    /\ \/ /\ tmpDirs' = [tmpDirs EXCEPT ![w] = @ \cup {jobId[w]}]
          /\ Goto(w, "hSetDownloading")
       \/ /\ tmpDirs' = tmpDirs
          /\ Throw(w, "External")
    /\ popped' = [popped EXCEPT ![w] = NoPop]
    /\ UNCHANGED << config, formatter, semaphore, jobQueues, job, submitVars,
                    timers, jobId, transcript, localRetry, storeHealth,
                    holdsGlobal, holdsAi, highAtAcquire, attempts, requeued,
                    attemptHistory, incrs >>

\* lines 97-101: hSet status processing:downloading_video
HSetDownloading(w) ==
    /\ pc[w] = "hSetDownloading"
    /\ StoreUp
    /\ job' = HSet(jobId[w], "status", "processing:downloading_video")
    /\ Goto(w, "hGetVideoUrl")
    /\ UNCHANGED << config, formatter, semaphore, jobQueues, processing,
                    submitVars, timers, tmpDirs, jobId, transcript,
                    localRetry, storeHealth, holdsGlobal, holdsAi, popInfo,
                    attempts, requeued, attemptHistory, incrs >>

\* lines 102-119: hGet videoUrl; absent is an error; then the video download
HGetVideoUrl(w) ==
    /\ pc[w] = "hGetVideoUrl"
    /\ StoreUp
    /\ IF job[jobId[w]].videoUrl = NoKey
       THEN Throw(w, "NoVideoUrl")
       ELSE \/ Goto(w, "hSetExtracting")
            \/ Throw(w, "External")
    /\ UNCHANGED << config, formatter, semaphore, jobQueues, processing, job,
                    submitVars, timers, tmpDirs, jobId, transcript,
                    localRetry, storeHealth, holdsGlobal, holdsAi, popInfo,
                    attempts, requeued, attemptHistory, incrs >>

\* lines 122-139: hSet status processing:extracting_audio, extractAudio,
\* upload of the audio
HSetExtracting(w) ==
    /\ pc[w] = "hSetExtracting"
    /\ StoreUp
    /\ job' = HSet(jobId[w], "status", "processing:extracting_audio")
    /\ \/ Goto(w, "hSetAudioUrl")
       \/ Throw(w, "External")
    /\ UNCHANGED << config, formatter, semaphore, jobQueues, processing,
                    submitVars, timers, tmpDirs, jobId, transcript,
                    localRetry, storeHealth, holdsGlobal, holdsAi, popInfo,
                    attempts, requeued, attemptHistory, incrs >>

\* line 140: hSet audioUrl
HSetAudioUrl(w) ==
    /\ pc[w] = "hSetAudioUrl"
    /\ StoreUp
    /\ job' = HSet(jobId[w], "audioUrl",
                   WithExt(job[jobId[w]].videoUrl, "mp3"))
    /\ Goto(w, "aiAcquire")
    /\ UNCHANGED << config, formatter, semaphore, jobQueues, processing,
                    submitVars, timers, tmpDirs, jobId, transcript,
                    localRetry, storeHealth, holdsGlobal, holdsAi, popInfo,
                    attempts, requeued, attemptHistory, incrs >>

\* line 144: await aiLimiter.acquire()
AiAcquire(w) ==
    /\ pc[w] = "aiAcquire"
    /\ StoreUp
    /\ semaphore.ai # <<>>
    /\ semaphore' = [semaphore EXCEPT !.ai = RPopRest(@)]
    /\ Goto(w, "hSetTranscribing")
    /\ holdsAi' = [holdsAi EXCEPT ![w] = TRUE]
    /\ UNCHANGED << config, formatter, jobQueues, processing, job, submitVars,
                    timers, tmpDirs, jobId, transcript, localRetry,
                    storeHealth, holdsGlobal, popInfo, attempts, requeued,
                    attemptHistory, incrs >>

\* lines 149-153: hSet status processing:transcribing_audio; the call of
\* transcriptionService.transcribe is then in flight
HSetTranscribing(w) ==
    /\ pc[w] = "hSetTranscribing"
    /\ StoreUp
    /\ job' = HSet(jobId[w], "status", "processing:transcribing_audio")
    /\ Goto(w, "transcribe")
    /\ UNCHANGED << config, formatter, semaphore, jobQueues, processing,
                    submitVars, timers, tmpDirs, jobId, transcript,
                    localRetry, storeHealth, holdsGlobal, holdsAi, popInfo,
                    attempts, requeued, attemptHistory, incrs >>

\* line 154: transcribe returns segments, returns none, or throws; the
\* finally block of line 156 runs next in each case
Transcribe(w) ==
    /\ pc[w] = "transcribe"
    /\ pc' = [pc EXCEPT ![w] = "aiRelease"]
    /\ \/ /\ transcript' = [transcript EXCEPT ![w] = "segments"]
          /\ errorMessage' = errorMessage
       \/ /\ transcript' = [transcript EXCEPT ![w] = "empty"]
          /\ errorMessage' = errorMessage
       \/ /\ transcript' = transcript
          /\ errorMessage' = [errorMessage EXCEPT ![w] = "External"]
    /\ UNCHANGED << config, formatter, semaphore, jobQueues, processing, job,
                    submitVars, timers, tmpDirs, jobId, localRetry,
                    storeHealth, holdsGlobal, holdsAi, popInfo, attempts,
                    requeued, attemptHistory, incrs >>

\* lines 157-182: aiLimiter.release(); a pending exception goes on to the
\* catch block; else the transcript is validated, formatted and uploaded
AiRelease(w) ==
    /\ pc[w] = "aiRelease"
    /\ StoreUp
    /\ semaphore' = [semaphore EXCEPT !.ai = LPush(@, "token")]
    /\ IF errorMessage[w] # ""
       THEN Throw(w, errorMessage[w])
       ELSE IF transcript[w] # "segments"
       THEN Throw(w, "NoSegments")
       ELSE \/ Goto(w, "hSetSubtitleUrl")
            \/ Throw(w, "External")
    /\ holdsAi' = [holdsAi EXCEPT ![w] = FALSE]
    /\ UNCHANGED << config, formatter, jobQueues, processing, job, submitVars,
                    timers, tmpDirs, jobId, transcript, localRetry,
                    storeHealth, holdsGlobal, popInfo, attempts, requeued,
                    attemptHistory, incrs >>

\* a faulty pipeline that goes on to line 186 without the hSet of line 183
HSetSubtitleUrlSkipped(w) ==
    /\ pc[w] = "hSetSubtitleUrl"
    /\ StoreUp
    /\ Goto(w, "hSetCompleted")
    /\ UNCHANGED << config, formatter, semaphore, jobQueues, processing, job,
                    submitVars, timers, tmpDirs, jobId, transcript,
                    localRetry, storeHealth, holdsGlobal, holdsAi, popInfo,
                    attempts, requeued, attemptHistory, incrs >>

\* line 183: hSet subtitleUrl
HSetSubtitleUrl(w) ==
    /\ pc[w] = "hSetSubtitleUrl"
    /\ StoreUp
    /\ job' = HSet(jobId[w], "subtitleUrl",
                   WithExt(job[jobId[w]].videoUrl, "srt"))
    /\ Goto(w, "hSetCompleted")
    /\ UNCHANGED << config, formatter, semaphore, jobQueues, processing,
                    submitVars, timers, tmpDirs, jobId, transcript,
                    localRetry, storeHealth, holdsGlobal, holdsAi, popInfo,
                    attempts, requeued, attemptHistory, incrs >>

\* line 186: hSet status completed; the finally block of line 224 is next
HSetCompleted(w) ==
    /\ pc[w] = "hSetCompleted"
    /\ StoreUp
    /\ job' = HSet(jobId[w], "status", "completed")
    /\ Goto(w, "sRem")
    /\ outcome' = [outcome EXCEPT ![w] = "completed"]
    /\ cleanup' = cleanup
    /\ UNCHANGED << config, formatter, semaphore, jobQueues, processing,
                    submitVars, timers, tmpDirs, jobId, transcript,
                    localRetry, storeHealth, holdsGlobal, holdsAi, popInfo,
                    attempts, requeued, incrs >>

\* line 192: retryCount = hIncrBy(retryCount, 1); line 194 picks the branch
\* a faulty catch block that gives up one attempt early (< for <=)
HIncrByRetryCountStrict(w) ==
    /\ pc[w] = "hIncrBy"
    /\ StoreUp
    /\ job' = HIncrBy(jobId[w], "retryCount", 1)
    /\ localRetry' = [localRetry EXCEPT ![w] = job'[jobId[w]].retryCount]
    /\ incrs' = [incrs EXCEPT ![w] = @ + 1]
    /\ IF localRetry'[w] < maxRetries
       THEN Goto(w, "hSetRetry")
       ELSE Goto(w, "hSetDlq")
    /\ UNCHANGED << config, formatter, semaphore, jobQueues, processing,
                    submitVars, timers, tmpDirs, jobId, transcript,
                    storeHealth, holdsGlobal, holdsAi, popInfo, attempts,
                    requeued, attemptHistory >>

HIncrByRetryCount(w) ==
    /\ pc[w] = "hIncrBy"
    /\ StoreUp
    /\ job' = HIncrBy(jobId[w], "retryCount", 1)
    /\ localRetry' = [localRetry EXCEPT ![w] = job'[jobId[w]].retryCount]
    /\ incrs' = [incrs EXCEPT ![w] = @ + 1]
    /\ IF localRetry'[w] <= maxRetries
       THEN Goto(w, "hSetRetry")
       ELSE Goto(w, "hSetDlq")
    /\ UNCHANGED << config, formatter, semaphore, jobQueues, processing,
                    submitVars, timers, tmpDirs, jobId, transcript,
                    storeHealth, holdsGlobal, holdsAi, popInfo, attempts,
                    requeued, attemptHistory >>

\* a faulty retry branch that puts the status back to queued
HSetRetryAsQueued(w) ==
    /\ pc[w] = "hSetRetry"
    /\ StoreUp
    /\ job' = HSet(jobId[w], "status", "queued")
    /\ Goto(w, "hSetRetryError")
    /\ UNCHANGED << config, formatter, semaphore, jobQueues, processing,
                    submitVars, timers, tmpDirs, jobId, transcript,
                    localRetry, storeHealth, holdsGlobal, holdsAi, popInfo,
                    attempts, requeued, attemptHistory, incrs >>

\* line 200: hSet status queued:retry
HSetRetry(w) ==
    /\ pc[w] = "hSetRetry"
    /\ StoreUp
    /\ job' = HSet(jobId[w], "status", "queued:retry")
    /\ Goto(w, "hSetRetryError")
    /\ UNCHANGED << config, formatter, semaphore, jobQueues, processing,
                    submitVars, timers, tmpDirs, jobId, transcript,
                    localRetry, storeHealth, holdsGlobal, holdsAi, popInfo,
                    attempts, requeued, attemptHistory, incrs >>

\* lines 201-213: hSet error, then setTimeout(requeue, backoffDelay)
HSetRetryError(w) ==
    /\ pc[w] = "hSetRetryError"
    /\ StoreUp
    /\ job' = HSet(jobId[w], "error", errorMessage[w])
    /\ timers' = timers \cup
                   {[job |-> jobId[w], owner |-> w,
                     delay |-> BackoffDelay(localRetry[w]), waited |-> 0]}
    /\ outcome' = [outcome EXCEPT ![w] = "retry"]
    /\ cleanup' = cleanup
    /\ Goto(w, "sRem")
    /\ UNCHANGED << config, formatter, semaphore, jobQueues, processing,
                    submitVars, tmpDirs, jobId, transcript, localRetry,
                    storeHealth, holdsGlobal, holdsAi, popInfo, attempts,
                    requeued, incrs >>

\* line 219: hSet status failed:dlq
HSetDlq(w) ==
    /\ pc[w] = "hSetDlq"
    /\ StoreUp
    /\ job' = HSet(jobId[w], "status", "failed:dlq")
    /\ Goto(w, "hSetDlqError")
    /\ UNCHANGED << config, formatter, semaphore, jobQueues, processing,
                    submitVars, timers, tmpDirs, jobId, transcript,
                    localRetry, storeHealth, holdsGlobal, holdsAi, popInfo,
                    attempts, requeued, attemptHistory, incrs >>

\* line 220: hSet error
HSetDlqError(w) ==
    /\ pc[w] = "hSetDlqError"
    /\ StoreUp
    /\ job' = HSet(jobId[w], "error", errorMessage[w])
    /\ Goto(w, "rPushDlq")
    /\ UNCHANGED << config, formatter, semaphore, jobQueues, processing,
                    submitVars, timers, tmpDirs, jobId, transcript,
                    localRetry, storeHealth, holdsGlobal, holdsAi, popInfo,
                    attempts, requeued, attemptHistory, incrs >>

\* line 222: rPush('queue:dlq', jobId)
RPushDlq(w) ==
    /\ pc[w] = "rPushDlq"
    /\ StoreUp
    /\ queueDlq' = RPush(queueDlq, jobId[w])
    /\ outcome' = [outcome EXCEPT ![w] = "dlq"]
    /\ cleanup' = cleanup
    /\ Goto(w, "sRem")
    /\ UNCHANGED << config, formatter, semaphore, queueHigh, queueLow,
                    arrival, processing, job, submitVars, timers, tmpDirs,
                    jobId, transcript, localRetry, storeHealth, holdsGlobal,
                    holdsAi, popInfo, attempts, requeued, incrs >>

\* a faulty cleanup that leaves the id in jobs:processing
SRemKeepsMember(w) ==
    /\ pc[w] = "sRem"
    /\ StoreUp
    /\ tmpDirs' = [tmpDirs EXCEPT ![w] = @ \ {jobId[w]}]
    /\ Goto(w, "release")
    /\ cleanup' = [cleanup EXCEPT ![w] = "done"]
    /\ UNCHANGED << config, formatter, semaphore, jobQueues, processing, job,
                    submitVars, timers, jobId, transcript, localRetry,
                    storeHealth, holdsGlobal, holdsAi, popInfo, attempts,
                    requeued, outcome, incrs >>

\* lines 227-230: sRem('jobs:processing', jobId), then fs.rm(tempDir)
SRem(w) ==
    /\ pc[w] = "sRem"
    /\ StoreUp
    /\ processing' = processing \ {jobId[w]}
    /\ tmpDirs' = [tmpDirs EXCEPT ![w] = @ \ {jobId[w]}]
    /\ Goto(w, "release")
    /\ cleanup' = [cleanup EXCEPT ![w] = "done"]
    /\ UNCHANGED << config, formatter, semaphore, jobQueues, job, submitVars,
                    timers, jobId, transcript, localRetry, storeHealth,
                    holdsGlobal, holdsAi, popInfo, attempts, requeued,
                    outcome, incrs >>

\* the client of worker w (the one redisClient of line 51) has a blocking pop
\* with timeout 0 pending (lines 43 and 271) that no element can serve yet:
\* the store serves the client's next commands, the lPush of a retry timer
\* among them, only after this pop
ClientBlocked(w) ==
    \/ pc[w] = "acquire" /\ semaphore.global = << >>
    \/ pc[w] = "brPop" /\ queueHigh = << >> /\ queueLow = << >>
    \/ pc[w] = "aiAcquire" /\ semaphore.ai = << >>

\* a faulty client whose timer callback may overtake the sRem of the cleanup
SRemOvertaken(j) ==
    j \in Jobs

\* the attempt that armed the timer of job j has issued the sRem of line
\* 227: it does so in the turn of the event loop that arms the timer (no
\* await lies between lines 206 and 227), the callback runs in a later turn
\* and uses the same client, and the store executes the commands of one
\* client in the order of their issue
SRemIssued(j) ==
    \A w \in Workers : ~(pc[w] = "sRem" /\ jobId[w] = j)

\* a faulty callback that requeues on the queue of the job's priority
TimerFireByPriority(t) ==
    /\ t \in timers
    /\ timed => t.waited >= t.delay
    /\ SRemIssued(t.job)
    /\ ~ClientBlocked(t.owner)
    /\ StoreUp
    /\ timers' = timers \ {t}
    /\ IF QueueOf(job[t.job].priority) = "queue:high"
       THEN /\ queueHigh' = LPush(queueHigh, t.job)
            /\ queueLow' = queueLow
            /\ arrival' = [arrival EXCEPT !.high = Append(@, t.job)]
            /\ requeued' = requeued
       ELSE /\ queueLow' = LPush(queueLow, t.job)
            /\ queueHigh' = queueHigh
            /\ arrival' = [arrival EXCEPT !.low = Append(@, t.job)]
            /\ requeued' = [requeued EXCEPT ![t.job] = @ + 1]
    /\ UNCHANGED << config, formatter, semaphore, queueDlq, processing, job,
                    submitVars, tmpDirs, pc, locals, storeHealth, holdsGlobal,
                    holdsAi, popInfo, attempts, attemptHistory, incrs >>

\* a faulty callback that pushes the id twice
TimerFireTwice(t) ==
    /\ t \in timers
    /\ timed => t.waited >= t.delay
    /\ SRemIssued(t.job)
    /\ ~ClientBlocked(t.owner)
    /\ StoreUp
    /\ timers' = timers \ {t}
    /\ queueLow' = LPush(LPush(queueLow, t.job), t.job)
    /\ arrival' = [arrival EXCEPT !.low = Append(Append(@, t.job), t.job)]
    /\ requeued' = [requeued EXCEPT ![t.job] = @ + 2]
    /\ UNCHANGED << config, formatter, semaphore, queueHigh, queueDlq,
                    processing, job, submitVars, tmpDirs, pc, locals,
                    storeHealth, holdsGlobal, holdsAi, popInfo, attempts,
                    attemptHistory, incrs >>

\* lines 206-213: the timer's callback: lPush('queue:low', jobId)
TimerFire(t) ==
    /\ t \in timers
    /\ timed => t.waited >= t.delay
    /\ SRemIssued(t.job)
    /\ ~ClientBlocked(t.owner)
    /\ StoreUp
    /\ timers' = timers \ {t}
    /\ queueLow' = LPush(queueLow, t.job)
    /\ arrival' = [arrival EXCEPT !.low = Append(@, t.job)]
    /\ requeued' = [requeued EXCEPT ![t.job] = @ + 1]
    /\ UNCHANGED << config, formatter, semaphore, queueHigh, queueDlq,
                    processing, job, submitVars, tmpDirs, pc, locals,
                    storeHealth, holdsGlobal, holdsAi, popInfo, attempts,
                    attemptHistory, incrs >>

\* TickMs milliseconds pass: every pending timer has waited that much
\* longer; time is followed only until every pending timer is due
Tick ==
    /\ timed
    /\ \E t \in timers : t.waited < t.delay
    /\ timers' = {[t EXCEPT !.waited = IF @ < t.delay THEN @ + TickMs ELSE @] :
                     t \in timers}
    /\ UNCHANGED << config, formatter, storeHealth, semaphore, jobQueues,
                    processing, job, submitVars, tmpDirs, pc, locals,
                    holdsGlobal, holdsAi, popInfo, attempts, requeued,
                    attemptHistory, incrs >>

(* ------------------------ rejected store commands ---------------------- *)

\* the store becomes unreachable / reachable again
StoreGoesDown ==
    /\ ~storeDown
    /\ outages < MaxOutages
    /\ storeDown' = TRUE
    /\ outages' = outages + 1
    /\ UNCHANGED << config, formatter, semaphore, jobQueues, processing, job,
                    submitVars, timers, tmpDirs, pc, locals, holdsGlobal,
                    holdsAi, popInfo, attempts, requeued, attemptHistory,
                    incrs >>

StoreComesBack ==
    /\ storeDown
    /\ storeDown' = FALSE
    /\ UNCHANGED << config, formatter, semaphore, jobQueues, processing, job,
                    submitVars, timers, tmpDirs, pc, locals, outages,
                    holdsGlobal, holdsAi, popInfo, attempts, requeued,
                    attemptHistory, incrs >>

\* a store command of the try block is rejected: the catch block runs
TryStoreError(w) ==
    /\ pc[w] \in {"sAdd", "hSetDownloading", "hGetVideoUrl", "hSetExtracting",
                  "hSetAudioUrl", "aiAcquire", "hSetSubtitleUrl",
                  "hSetCompleted"}
    /\ storeDown
    /\ Throw(w, "External")
    /\ popped' = [popped EXCEPT ![w] = NoPop]
    /\ UNCHANGED << config, formatter, storeHealth, semaphore, jobQueues,
                    processing, job, submitVars, timers, tmpDirs, jobId,
                    transcript, localRetry, holdsGlobal, holdsAi,
                    highAtAcquire, attempts, requeued, attemptHistory,
                    incrs >>

\* the hSet of line 149 is rejected inside the inner try: its finally block
\* (line 157) runs with the exception pending
TranscribingStoreError(w) ==
    /\ pc[w] = "hSetTranscribing"
    /\ storeDown
    /\ pc' = [pc EXCEPT ![w] = "aiRelease"]
    /\ errorMessage' = [errorMessage EXCEPT ![w] = "External"]
    /\ UNCHANGED << config, formatter, storeHealth, semaphore, jobQueues,
                    processing, job, submitVars, timers, tmpDirs, jobId,
                    transcript, localRetry, holdsGlobal, holdsAi, popInfo,
                    attempts, requeued, attemptHistory, incrs >>

\* aiLimiter.release() of line 157 is rejected: its exception replaces any
\* pending one and the catch block runs
AiReleaseStoreError(w) ==
    /\ pc[w] = "aiRelease"
    /\ storeDown
    /\ Throw(w, "External")
    /\ UNCHANGED << config, formatter, storeHealth, semaphore, jobQueues,
                    processing, job, submitVars, timers, tmpDirs, jobId,
                    transcript, localRetry, holdsGlobal, holdsAi, popInfo,
                    attempts, requeued, attemptHistory, incrs >>

\* a store command of the catch block is rejected: the exception leaves the
\* catch block and the finally block of line 224 runs
CatchStoreError(w) ==
    /\ pc[w] \in {"hIncrBy", "hSetRetry", "hSetRetryError", "hSetDlq",
                  "hSetDlqError", "rPushDlq"}
    /\ storeDown
    /\ outcome' = [outcome EXCEPT ![w] = "escaped"]
    /\ cleanup' = cleanup
    /\ pc' = [pc EXCEPT ![w] = "sRem"]
    /\ errorMessage' = [errorMessage EXCEPT ![w] = "External"]
    /\ UNCHANGED << config, formatter, storeHealth, semaphore, jobQueues,
                    processing, job, submitVars, timers, tmpDirs, jobId,
                    transcript, localRetry, holdsGlobal, holdsAi, popInfo,
                    attempts, requeued, incrs >>

\* the sRem of line 227 is rejected: processJob rejects before fs.rm, the
\* loop logs it (line 285) and releases the global slot (line 292)
SRemStoreError(w) ==
    /\ pc[w] = "sRem"
    /\ storeDown
    /\ pc' = [pc EXCEPT ![w] = "release"]
    /\ errorMessage' = [errorMessage EXCEPT ![w] = "External"]
    /\ cleanup' = [cleanup EXCEPT ![w] = "sRemRejected"]
    /\ UNCHANGED << config, formatter, storeHealth, semaphore, jobQueues,
                    processing, job, submitVars, timers, tmpDirs, jobId,
                    transcript, localRetry, holdsGlobal, holdsAi, popInfo,
                    attempts, requeued, outcome, incrs >>

\* the sRem of line 227 is executed and fs.rm (line 230) fails: the error
\* is logged (lines 232-236) and the scratch directory stays; a failure of
\* the file system counts as an outage in the budget of MaxOutages
RmError(w) ==
    /\ pc[w] = "sRem"
    /\ StoreUp
    /\ outages < MaxOutages
    /\ outages' = outages + 1
    /\ storeDown' = storeDown
    /\ jobId[w] \in tmpDirs[w]
    /\ processing' = processing \ {jobId[w]}
    /\ cleanup' = [cleanup EXCEPT ![w] = "rmFailed"]
    /\ Goto(w, "release")
    /\ UNCHANGED << config, formatter, semaphore, jobQueues, job, submitVars,
                    timers, tmpDirs, jobId, transcript, localRetry,
                    holdsGlobal, holdsAi, popInfo, attempts, requeued,
                    outcome, incrs >>

\* acquire() of line 268, the brPop of line 271 or release() of line 292 is
\* rejected: the loop's catch block (line 296) runs
LoopStoreError(w) ==
    /\ pc[w] \in {"acquire", "brPop", "release"}
    /\ storeDown
    /\ pc' = [pc EXCEPT ![w] = "loopCatch"]
    /\ errorMessage' = [errorMessage EXCEPT ![w] = "External"]
    /\ UNCHANGED << config, formatter, storeHealth, semaphore, jobQueues,
                    processing, job, submitVars, timers, tmpDirs, jobId,
                    transcript, localRetry, holdsGlobal, holdsAi, popInfo,
                    attempts, requeued, attemptHistory, incrs >>

\* release() of line 300 is rejected: logged (line 302), then the sleep
LoopCatchStoreError(w) ==
    /\ pc[w] = "loopCatch"
    /\ storeDown
    /\ pc' = [pc EXCEPT ![w] = "sleep"]
    /\ UNCHANGED << config, formatter, storeHealth, semaphore, jobQueues,
                    processing, job, submitVars, timers, tmpDirs, locals,
                    holdsGlobal, holdsAi, popInfo, attempts, requeued,
                    attemptHistory, incrs >>

\* the lPush of line 208 is rejected: logged (line 211), the id is not queued
TimerStoreError(t) ==
    /\ t \in timers
    /\ timed => t.waited >= t.delay
    /\ SRemIssued(t.job)
    /\ ~ClientBlocked(t.owner)
    /\ storeDown
    /\ timers' = timers \ {t}
    /\ UNCHANGED << config, formatter, storeHealth, semaphore, jobQueues,
                    processing, job, submitVars, tmpDirs, pc, locals,
                    holdsGlobal, holdsAi, popInfo, attempts, requeued,
                    attemptHistory, incrs >>

(* ------------------------------- Next ---------------------------------- *)

StartupStep(w) ==
    \/ InitDelGlobal(w) \/ InitDelAi(w)
    \/ InitRPushGlobal(w) \/ InitRPushAi(w)

LoopStep(w) ==
    \/ Acquire(w) \/ BrPopJob(w) \/ Release(w)
    \/ SAdd(w) \/ HSetDownloading(w) \/ HGetVideoUrl(w)
    \/ HSetExtracting(w) \/ HSetAudioUrl(w) \/ AiAcquire(w)
    \/ HSetTranscribing(w) \/ Transcribe(w) \/ AiRelease(w)
    \/ HSetSubtitleUrl(w) \/ HSetCompleted(w)
    \/ HIncrByRetryCount(w) \/ HSetRetry(w) \/ HSetRetryError(w)
    \/ HSetDlq(w) \/ HSetDlqError(w) \/ RPushDlq(w) \/ SRem(w)

StoreErrorStep(w) ==
    \/ TryStoreError(w) \/ TranscribingStoreError(w)
    \/ AiReleaseStoreError(w) \/ CatchStoreError(w) \/ SRemStoreError(w)
    \/ RmError(w)
    \/ LoopStoreError(w) \/ LoopCatchStoreError(w)
    \/ LoopCatchRelease(w) \/ Sleep(w)

PostStep ==
    \/ \E priority \in {"high", "low"} : PostJobsHSet(priority)
    \/ \E j \in Jobs : PostJobsLPush(j)

\* the fleet with a store that accepts every command
Next ==
    \/ PostStep
    \/ \E w \in Workers : StartupStep(w)
    \/ \E w \in Workers : LoopStep(w)
    \/ \E t \in timers : TimerFire(t)

\* every worker starts (startWorker) against the shared store
Spec ==
    Init /\ [][Next]_vars

\* the same fleet configured with one global slot fewer than it has workers
InitScarce ==
    /\ InitWith(Workers, {}, [global |-> NumWorkers - 1,
                              ai |-> MAX_AI_CONCURRENCY],
                RetryDepth)
    /\ timed = FALSE
    /\ NoFormatting

SpecScarce ==
    InitScarce /\ [][Next]_vars

\* the fleet after a bootstrap: every worker has run its initialize() before
\* the first job is submitted
InitBooted ==
    /\ InitWith({}, Workers, [global |-> MAX_GLOBAL_CONCURRENCY,
                              ai |-> MAX_AI_CONCURRENCY],
                RetryDepth)
    /\ timed = FALSE
    /\ NoFormatting

NextBooted ==
    \/ PostStep
    \/ \E w \in Workers : LoopStep(w)
    \/ \E t \in timers : TimerFire(t)

SpecBooted ==
    InitBooted /\ [][NextBooted]_vars

\* one deployed worker, and a store that may reject commands
InitSolo ==
    /\ InitWith({1}, {}, [global |-> 1, ai |-> MAX_AI_CONCURRENCY],
                MAX_RETRIES)
    /\ timed = FALSE
    /\ NoFormatting

NextSolo ==
    \/ Next
    \/ StoreGoesDown
    \/ StoreComesBack
    \/ \E w \in Workers : StoreErrorStep(w)
    \/ \E t \in timers : TimerStoreError(t)

SpecSolo ==
    InitSolo /\ [][NextSolo]_vars

\* one deployed worker, and a store that accepts every command
SpecSoloUp ==
    InitSolo /\ [][Next]_vars

\* one deployed worker that takes every step it can take, request handlers
\* that finish, and timer callbacks whose lPush is executed when the store
\* can serve it (the event loop runs every ready continuation)
Fairness ==
    /\ \A w \in Workers : WF_vars(StartupStep(w))
    /\ \A w \in Workers : WF_vars(LoopStep(w))
    /\ \A j \in Jobs : WF_vars(PostJobsLPush(j))
    /\ WF_vars(\E t \in timers : TimerFire(t))

SpecFair ==
    InitSolo /\ [][Next]_vars /\ Fairness

\* the same with the passing of time: a retry timer fires when its delay
\* has elapsed (setTimeout, line 206)
InitTimed ==
    /\ InitWith({1}, {}, [global |-> 1, ai |-> MAX_AI_CONCURRENCY],
                MAX_RETRIES)
    /\ timed = TRUE
    /\ NoFormatting

NextTimed ==
    Next \/ Tick

SpecTimed ==
    InitTimed /\ [][NextTimed]_vars

(* ------------------------- concurrency limits -------------------------- *)

\* workers that popped a token of semaphore:global and have not pushed one
InFlightGlobal ==
    Cardinality({w \in Workers : holdsGlobal[w]})

\* some worker has completed its initialize() calls and entered the loop
Initialized ==
    \E w \in Workers :
        pc[w] \notin {"off", "delGlobal", "delAi", "rPushGlobal", "rPushAi"}

\* C1: in every reachable state (from the first completed initialization
\* on) the tokens in flight plus the tokens in semaphore:global equal
\* MAX_GLOBAL_CONCURRENCY, give or take one.
\* The initialize() of a second worker empties and refills the list.
C1_TokenConservation ==
    Initialized =>
        InFlightGlobal + Len(semaphore.global)
            \in (limit.global - 1)..(limit.global + 1)

\* workers with a call of transcriptionService.transcribe in flight
InFlightTranscribe ==
    Cardinality({w \in Workers : pc[w] = "transcribe"})

\* C2: in every reachable state at most MAX_AI_CONCURRENCY calls of
\* transcribe are in flight across all workers.
\* A worker that starts while another one transcribes refills semaphore:ai.
C2_AiSlotBound ==
    InFlightTranscribe <= limit.ai

\* workers inside processJob
InFlightJobs ==
    Cardinality({w \in Workers : pc[w] \in InProcessJob})

\* C3: in every reachable state at most MAX_GLOBAL_CONCURRENCY workers of
\* the fleet are inside processJob.
\* A worker that starts while another one holds the only slot refills
\* semaphore:global and takes a slot of its own.
C3_FleetParallelism ==
    InFlightJobs <= limit.global

(* ------------------------------ ordering ------------------------------- *)

\* worker w completes its brPop of the job queues in this step
Pops(w) ==
    pc[w] = "brPop" /\ pc'[w] = "sAdd"

\* the pop of this step served queue:high
PopsHigh ==
    /\ queueHigh # <<>>
    /\ queueHigh' = RPopRest(queueHigh)
    /\ queueLow' = queueLow

\* C4 as stated: if queue:high is non-empty at the instant a worker's
\* acquire of a global slot completes, the job that worker starts next comes
\* from queue:high.
\* Another worker can empty queue:high between the acquire and the pop.
C4_PriorityAtAcquire ==
    [][\A w \in Workers :
          (Pops(w) /\ highAtAcquire[w]) =>
              (PopsHigh /\ jobId'[w] = RPopElement(queueHigh))]_vars

\* C4, amended: if queue:high is non-empty at the instant a worker's brPop
\* is served, the job that worker starts comes from queue:high, whatever
\* queue:low holds.
C4_PriorityAtPop ==
    [][\A w \in Workers :
          (Pops(w) /\ queueHigh # <<>>) =>
              (PopsHigh /\ jobId'[w] = RPopElement(queueHigh))]_vars

\* C4: a worker has just been served from queue:high while an id was
\* waiting in queue:low
C4_Witness ==
    \E w \in Workers :
        /\ pc[w] = "sAdd"
        /\ popped[w].key = "queue:high"
        /\ popped[w].low > 0

\* C5 as stated: one worker, one slot; JA is pushed on queue:low and then JB
\* on queue:high: processJob(JB) starts before processJob(JA), whatever the
\* worker was doing when JB arrived.
\* The idle worker pops JA before JB is submitted.
C5_HighOvertakesLow ==
    \A b \in Jobs : \A a \in lowBefore[b].pushed :
        ~(attempts[a] > 0 /\ attempts[b] = 0)

\* C5, amended: if JA is still waiting in queue:low, never started, when JB
\* is pushed on queue:high, processJob(JB) starts before processJob(JA).
C5_HighOvertakesWaitingLow ==
    \A b \in Jobs : \A a \in lowBefore[b].waiting :
        ~(attempts[a] > 0 /\ attempts[b] = 0)

\* C5: JB was pushed on queue:high while JA waited in queue:low, and the
\* worker has started JB and not JA
C5_Witness ==
    \E b \in Jobs : \E a \in lowBefore[b].waiting :
        /\ jobId[1] = b
        /\ pc[1] \in InProcessJob
        /\ attempts[b] = 1
        /\ attempts[a] = 0

\* C6: each of queue:high and queue:low is first in, first out: a pop
\* returns the id pushed earliest among those waiting in the queue it
\* serves, the ids requeued by the retry path included.
C6_Fifo ==
    [][\A w \in Workers :
          Pops(w) =>
              IF queueHigh' # queueHigh
              THEN jobId'[w] = Head(arrival.high)
              ELSE jobId'[w] = Head(arrival.low)]_vars

\* C6: a worker has just popped a requeued id from queue:low while another
\* id, pushed later, was waiting behind it
C6_Witness ==
    \E w \in Workers :
        /\ pc[w] = "sAdd"
        /\ popped[w].key = "queue:low"
        /\ popped[w].low > 1
        /\ job[jobId[w]].status = "queued:retry"
        /\ attempts[jobId[w]] > 1

(* --------------------------- status and retries ------------------------ *)

ProcessingStatus ==
    {"processing:downloading_video", "processing:extracting_audio",
     "processing:transcribing_audio"}

\* the diagram of the status field, as pairs <<from, to>>; the first pair
\* is the creation of the record by POST /jobs
DiagramEdges ==
    {<<"", "queued">>,
     <<"queued", "processing:downloading_video">>,
     <<"processing:downloading_video", "processing:extracting_audio">>,
     <<"processing:extracting_audio", "processing:transcribing_audio">>,
     <<"processing:transcribing_audio", "completed">>}
    \cup (ProcessingStatus \X {"queued:retry", "failed:dlq"})
    \cup ({"queued:retry"} \X ProcessingStatus)

\* the edges an attempt takes when it fails before its first status write
EarlyFailureEdges ==
    {<<"queued", "queued:retry">>, <<"queued:retry", "failed:dlq">>}

\* every change of a status in this step is one of the given edges
StatusStepsIn(edges) ==
    \A j \in Jobs :
        job'[j].status # job[j].status =>
            <<job[j].status, job'[j].status>> \in edges

\* C7 as stated: every change of a job's status is an edge of the diagram,
\* on every path through processJob, failures at sAdd and mkdir included.
\* A first attempt that fails at mkdir goes from queued to queued:retry.
C7_StatusDiagram ==
    [][StatusStepsIn(DiagramEdges)]_vars

\* C7, amended: every change of a job's status is an edge of the diagram or,
\* for an attempt that fails before its first status write, one of
\* queued -> queued:retry and queued:retry -> failed:dlq.
C7_StatusDiagramWithEarlyFailure ==
    [][StatusStepsIn(DiagramEdges \cup EarlyFailureEdges)]_vars

\* C7: the first attempt of a job failed at sAdd or mkdir (no scratch
\* directory) and its catch block has written queued:retry over queued
C7_Witness ==
    \E w \in Workers :
        /\ pc[w] = "hSetRetryError"
        /\ jobId[w] \notin tmpDirs[w]
        /\ attempts[jobId[w]] = 1
        /\ job[jobId[w]].status = "queued:retry"

\* the attempt of worker w has run to the end of processJob
AttemptEnded(w) ==
    pc[w] = "release"

C9_DlqExactlyOnce ==
    \A j \in Jobs :
        job[j].status = "failed:dlq" =>
            /\ job[j].retryCount = MAX_RETRIES + 1
            /\ Occurrences(queueDlq, j) = 1

\* C10: in every reachable state, a job whose status is failed:dlq has its
\* id in queue:dlq and retryCount > MAX_RETRIES.
\* Between the hSet of line 219 and the rPush of line 222 the id is not in
\* queue:dlq; it never gets there when the store rejects the rPush.
C10_DlqInvariant ==
    \A j \in Jobs :
        job[j].status = "failed:dlq" =>
            /\ j \in Members(queueDlq)
            /\ job[j].retryCount > MAX_RETRIES

(* ----------------------------- job records ---------------------------- *)

\* C11: in every reachable state a job whose status is completed has its
\* subtitleUrl field set, to the .srt key, also when earlier attempts of
\* the job failed.
C11_CompletedHasSubtitle ==
    \A j \in Jobs :
        job[j].status = "completed" =>
            /\ job[j].subtitleUrl # NoKey
            /\ job[j].subtitleUrl = WithExt(job[j].videoUrl, "srt")

\* C11: a job has completed on a retried attempt
C11_Witness ==
    \E j \in Jobs :
        /\ job[j].status = "completed"
        /\ job[j].retryCount > 0
        /\ job[j].subtitleUrl.ext = "srt"

(* ------------------------- where a job id is --------------------------- *)

\* the number of places among queue:high, queue:low, queue:dlq and
\* jobs:processing that hold the id, each occurrence in a list counted
MembershipCount(j) ==
    Occurrences(queueHigh, j) + Occurrences(queueLow, j)
        + Occurrences(queueDlq, j) + (IF j \in processing THEN 1 ELSE 0)

\* a worker has left the catch block of an attempt of j and has not yet
\* issued the sRem of line 227
Moving(j) ==
    \E w \in Workers : jobId[w] = j /\ pc[w] = "sRem"

\* C12: in every reachable state a job id is in at most one of queue:high,
\* queue:low, queue:dlq and jobs:processing; the exception is the window
\* before the sRem of a worker's cleanup, in which the id can be in
\* jobs:processing and also in queue:dlq (pushed at line 222) or in
\* queue:low (pushed by the retry timer).
\* When the store rejects that sRem the id stays in jobs:processing and
\* the retry timer or line 222 puts it in a queue as well.
C12_ExclusiveMembership ==
    \A j \in Jobs :
        \/ MembershipCount(j) <= 1
        \/ /\ Moving(j)
           /\ j \in processing
           /\ MembershipCount(j) = 2
           /\ Occurrences(queueHigh, j) = 0


(* ------------------------------- backoff ------------------------------- *)

\* the delays of the schedule, in milliseconds, for retryCount 1, 2, 3
ClaimedBackoff ==
    <<2000, 4000, 8000>>

InSomeQueue(j) ==
    Occurrences(queueHigh, j) + Occurrences(queueLow, j)
        + Occurrences(queueDlq, j) > 0

\* the callback of timer t pushes its id on queue:low in this step
Requeues(t) ==
    /\ t \in timers
    /\ timers' = timers \ {t}
    /\ queueLow' = LPush(queueLow, t.job)

\* C13: after a failed attempt that leaves retryCount r <= MAX_RETRIES the
\* id is pushed on queue:low no earlier than 2^(r-1) * INITIAL_BACKOFF_MS
\* (2000, 4000, 8000 ms for r = 1, 2, 3) after the failure was handled, and
\* it is in no queue during that delay.
C13_BackoffSchedule ==
    /\ [](\A t \in timers :
             /\ job[t.job].retryCount \in 1..MAX_RETRIES
             /\ t.delay = ClaimedBackoff[job[t.job].retryCount]
             /\ ~InSomeQueue(t.job))
    /\ [][\A t \in timers :
             Requeues(t) =>
                 t.waited >= ClaimedBackoff[job[t.job].retryCount]]_vars

\* C13: a job that failed three times is back on queue:low, its third
\* delay having elapsed
C13_Witness ==
    \E j \in Jobs :
        /\ job[j].retryCount = 3
        /\ job[j].status = "queued:retry"
        /\ j \in Members(queueLow)
        /\ \A t \in timers : t.job # j

(* ------------------------------- requeue ------------------------------- *)

\* the timer of job j is pending / has gone
TimerPending(j) ==
    \E t \in timers : t.job = j

\* C14: every requeue of a failed job goes to queue:low and never to
\* queue:high, whatever the job's priority: the step that ends a job's
\* timer pushes the id on the left of queue:low and leaves queue:high and
\* queue:dlq alone, and queue:high never gains a job that was attempted.
C14_RequeueLow ==
    [][\A j \in Jobs :
          /\ (TimerPending(j) /\ ~TimerPending(j)') =>
                 /\ queueLow' = LPush(queueLow, j)
                 /\ queueHigh' = queueHigh
                 /\ queueDlq' = queueDlq
          /\ job[j].retryCount > 0 =>
                 Occurrences(queueHigh', j) <= Occurrences(queueHigh, j)]_vars

\* C14: a high-priority job that failed waits on queue:low
C14_Witness ==
    \E j \in Jobs :
        /\ job[j].priority = "high"
        /\ job[j].retryCount > 0
        /\ job[j].status = "queued:retry"
        /\ j \in Members(queueLow)

(* ------------------------- end of a failed attempt --------------------- *)

\* the attempt of worker w ended through a raised failure and its cleanup
\* has finished
FailedAttemptCleaned(w) ==
    /\ AttemptEnded(w)
    /\ outcome[w] \in {"retry", "dlq", "escaped"}
    /\ cleanup[w] # ""

\* C15: when an attempt of processJob(j) has ended through a raised failure,
\* at the moment its cleanup has finished the status of j is queued:retry
\* or failed:dlq, never processing:*, a failure of a store command included.
C15_NotLeftProcessing ==
    \A w \in Workers :
        FailedAttemptCleaned(w) =>
            /\ job[jobId[w]].status \in {"queued:retry", "failed:dlq"}
            /\ job[jobId[w]].status \notin ProcessingStatus

(* --------------------------------- cleanup ----------------------------- *)

\* processJob of worker w has ended, by success, by a handled failure or by
\* an exception that left its catch block
ProcessJobEnded(w) ==
    /\ AttemptEnded(w)
    /\ outcome[w] \in {"completed", "retry", "dlq", "escaped"}

\* C16: after processJob(j) has ended on any exit path j is not a member of
\* jobs:processing and the scratch directory /tmp/j does not exist; only the
\* cleanup step that itself failed may have left its own resource behind
\* (a rejected sRem the membership, a failed rm the directory).
C16_CleanupOnEveryExit ==
    \A w \in Workers :
        ProcessJobEnded(w) =>
            /\ cleanup[w] # "sRemRejected" => jobId[w] \notin processing
            /\ cleanup[w] # "rmFailed" => jobId[w] \notin tmpDirs[w]

(* ---------------------------- jobs:processing -------------------------- *)

\* C17: in every reachable state the cardinality of jobs:processing is at
\* most the number of processJob executions running across all workers.
C17_ProcessingBound ==
    Cardinality(processing) <= InFlightJobs

(* ------------------------- acquire/release pairing --------------------- *)

\* worker w pushes a token on semaphore:global in this step
PushesGlobalToken(w) ==
    /\ pc[w] \in {"release", "loopCatch"}
    /\ semaphore'.global = LPush(semaphore.global, "token")

\* worker w ends an iteration of its loop in this step
EndsIteration(w) ==
    /\ pc[w] \in {"release", "sleep"}
    /\ pc'[w] = "acquire"

\* C18: on every path through the loop, the paths where acquire or the
\* blocking pop is rejected included, a worker pushes a token on
\* semaphore:global only when it holds one it popped, and it holds none
\* when the iteration ends.
C18_AcquireReleasePairing ==
    [][\A w \in Workers :
          /\ PushesGlobalToken(w) => holdsGlobal[w]
          /\ EndsIteration(w) => ~holdsGlobal'[w]]_vars

(* ----------------------------- dead-lettering -------------------------- *)

C20_RetryThenSucceed ==
    \A j \in Jobs :
        job[j].status = "completed" =>
            /\ job[j].retryCount = attempts[j] - 1
            /\ job[j].retryCount <= MAX_RETRIES
            /\ requeued[j] = job[j].retryCount
            /\ ~InSomeQueue(j)
            /\ ~TimerPending(j)

\* C20: two failures, then a success (scenario S2)
C20_Witness ==
    \E j \in Jobs :
        /\ job[j].status = "completed"
        /\ attempts[j] = 3
        /\ job[j].retryCount = 2
        /\ requeued[j] = 2

(* ------------------------------ formatToSrt ---------------------------- *)

\* the longest transcript that is formatted
MaxSegments == 2

\* segment times in milliseconds: below and above one minute, one hour and
\* one day
MsValues ==
    {0, 1000, 3723004, 86399999, 86400000, 90061001}

Texts ==
    {"hi", "so long"}

\* TranscriptSegment: {text, start, end}
Segments ==
    [text : Texts, start : MsValues, end : MsValues]

Transcripts ==
    UNION {[1..n -> Segments] : n \in 1..MaxSegments}

\* a number below 100 / below 1000 written with 2 / 3 digits
Pad2(n) ==
    ToString(n \div 10) \o ToString(n % 10)

Pad3(n) ==
    ToString(n \div 100) \o Pad2(n % 100)

\* line 65: new Date(ms).toISOString().substr(11, 12): the time of day of
\* the instant ms milliseconds after the epoch, as HH:MM:SS.mmm
toTimestamp(ms) ==
    Pad2((ms \div 3600000) % 24) \o ":" \o Pad2((ms \div 60000) % 60)
        \o ":" \o Pad2((ms \div 1000) % 60) \o "." \o Pad3(ms % 1000)

\* lines 69-72: the template of one entry; index counts from 0
SrtEntry(entry, index) ==
    ToString(index + 1) \o "\n" \o toTimestamp(entry.start) \o " --> "
        \o toTimestamp(entry.end) \o "\n" \o entry.text \o "\n"

\* Array.prototype.join
RECURSIVE Join(_, _)
Join(strings, separator) ==
    IF strings = << >> THEN ""
    ELSE IF Len(strings) = 1 THEN strings[1]
    ELSE strings[1] \o separator \o Join(Tail(strings), separator)

\* lines 64-75
formatToSrt(t) ==
    Join([i \in 1..Len(t) |-> SrtEntry(t[i], i - 1)], "\n")

\* line 168: const srtContent = formatToSrt(transcript)
FormatToSrt ==
    /\ srtStep = "format"
    /\ srtContent' = formatToSrt(srtTranscript)
    /\ srtStep' = "writeFile"
    /\ UNCHANGED << config, storeHealth, semaphore, jobQueues, processing,
                    job, submitVars, timers, tmpDirs, pc, locals, holdsGlobal,
                    holdsAi, popInfo, attempts, requeued, attemptHistory,
                    incrs, srtTranscript >>

\* processJob has a validated, non-empty transcript in hand (line 166)
InitSrt ==
    /\ InitWith({}, {}, [global |-> MAX_GLOBAL_CONCURRENCY,
                         ai |-> MAX_AI_CONCURRENCY],
                MAX_RETRIES)
    /\ timed = FALSE
    /\ srtStep = "format"
    /\ srtTranscript \in Transcripts
    /\ srtContent = ""

SpecSrt ==
    InitSrt /\ [][FormatToSrt]_vars

\* the lines of a text, each without its line feed; a text that ends with a
\* line feed has no further line after it
RECURSIVE LinesFrom(_, _)
LinesFrom(text, from) ==
    IF from > Len(text) THEN << >>
    ELSE LET ends == {k \in from..Len(text) : SubSeq(text, k, k) = "\n"}
             stop == IF ends = {} THEN Len(text) + 1
                     ELSE CHOOSE k \in ends : \A m \in ends : k <= m
         IN  <<SubSeq(text, from, stop - 1)>> \o LinesFrom(text, stop + 1)

Lines(text) ==
    LinesFrom(text, 1)

\* the value of a text of decimal digits
RECURSIVE Number(_)
Number(digits) ==
    IF digits = "" THEN 0
    ELSE Number(SubSeq(digits, 1, Len(digits) - 1)) * 10
             + (CHOOSE d \in 0..9 :
                    ToString(d) = SubSeq(digits, Len(digits), Len(digits)))

\* HH:MM:SS.mmm read back as ((HH*60+MM)*60+SS)*1000+mmm
ParseTimestamp(stamp) ==
    ((Number(SubSeq(stamp, 1, 2)) * 60 + Number(SubSeq(stamp, 4, 5))) * 60
         + Number(SubSeq(stamp, 7, 8))) * 1000 + Number(SubSeq(stamp, 10, 12))

\* the two timestamps of the line 'start --> end'
StartStamp(line) ==
    SubSeq(line, 1, 12)

EndStamp(line) ==
    SubSeq(line, 18, 29)

\* C21: for every non-empty transcript formatToSrt emits, for each segment
\* i in input order, the lines i, 'start --> end', text and a blank line,
\* the blank line after the last segment included; the single segment
\* {text: 'hi', start: 0, end: 1000} gives
\* "1\n00:00:00.000 --> 00:00:01.000\nhi\n\n".
C21_SrtLayout ==
    srtStep = "writeFile" =>
        /\ srtContent =
               Join([i \in 1..Len(srtTranscript) |->
                        SrtEntry(srtTranscript[i], i - 1) \o "\n"], "")
        /\ srtTranscript = <<[text |-> "hi", start |-> 0, end |-> 1000]>> =>
               srtContent = "1\n00:00:00.000 --> 00:00:01.000\nhi\n\n"

\* C22: for every segment time ms >= 0, the text toTimestamp(ms) written in
\* the SRT content, read back as ((HH*60+MM)*60+SS)*1000+mmm, is ms again,
\* values of 24 hours and above included.
C22_TimestampRoundTrip ==
    srtStep = "writeFile" =>
        \A i \in 1..Len(srtTranscript) :
            LET line == Lines(srtContent)[4 * (i - 1) + 2]
            IN  /\ ParseTimestamp(StartStamp(line)) = srtTranscript[i].start
                /\ ParseTimestamp(EndStamp(line)) = srtTranscript[i].end

(* -------------------------------- lock order --------------------------- *)

\* worker w waits for a token of the semaphore
WaitsFor(w, name) ==
    /\ pc[w] = (IF name = "ai" THEN "aiAcquire" ELSE "acquire")
    /\ semaphore[name] = << >>

\* C23: in every reachable state a worker that holds an AI token also holds
\* a global token, no worker is at the acquire of semaphore:global while it
\* holds an AI token, and no worker holds one once the transcript has been
\* validated, formatted and uploaded; no worker that holds the AI token
\* another worker waits for is itself waiting for a token.
C23_LockOrder ==
    /\ \A w \in Workers :
           /\ holdsAi[w] => holdsGlobal[w]
           /\ pc[w] = "acquire" => ~holdsAi[w]
           /\ pc[w] \in {"hSetSubtitleUrl", "hSetCompleted"} => ~holdsAi[w]
    /\ ~ \E w, v \in Workers :
           /\ holdsAi[w]
           /\ WaitsFor(v, "ai")
           /\ WaitsFor(w, "ai") \/ WaitsFor(w, "global")

(* ------------------------------ loop failure --------------------------- *)

\* worker w takes a step of the loop's failure path: the rejection of its
\* acquire (line 268) or of its blocking pop (line 271), the catch block of
\* line 296, or the sleep of line 304
LoopFailureStep(w) ==
    /\ pc'[w] # pc[w]
    /\ \/ pc[w] \in {"acquire", "brPop"} /\ pc'[w] = "loopCatch"
       \/ pc[w] \in {"loopCatch", "sleep"}

\* C24: a failure of the worker loop (a store error raised by the global
\* acquire or by the blocking pop) leaves the status, retryCount and error
\* of every job and the contents of queue:high, queue:low and queue:dlq
\* unchanged; the worker goes through its catch block to the sleep and from
\* the sleep to the next iteration, and does not terminate.
C24_LoopFailureFrame ==
    [][\A w \in Workers :
          LoopFailureStep(w) =>
              /\ \A j \in Jobs :
                     /\ job'[j].status = job[j].status
                     /\ job'[j].retryCount = job[j].retryCount
                     /\ job'[j].error = job[j].error
              /\ queueHigh' = queueHigh
              /\ queueLow' = queueLow
              /\ queueDlq' = queueDlq
              /\ pc[w] = "loopCatch" => pc'[w] = "sleep"
              /\ pc[w] = "sleep" => pc'[w] = "acquire"]_vars

\* C24: a worker whose acquire or pop was rejected before it had a job has
\* reached the sleep of its catch block while a submitted job waits
C24_Witness ==
    \E w \in Workers :
        /\ pc[w] = "sleep"
        /\ errorMessage[w] = "External"
        /\ jobId[w] = 0
        /\ \E j \in Jobs : j \in Members(queueLow) /\ job[j].status = "queued"

(* ------------------------- semaphore initialisation -------------------- *)

\* every worker has completed its initialize() calls and none has popped a
\* token yet
AllInitializedNoneAcquired ==
    /\ \A w \in Workers : pc[w] = "acquire" /\ ~holdsGlobal[w] /\ ~holdsAi[w]
    /\ \A j \in Jobs : attempts[j] = 0

\* C25: after the initialize() calls of the workers, which start together
\* and whose del and rPush commands interleave, with no token acquired, a
\* list of capacity N holds exactly N tokens.
C25_InitializeExactlyN ==
    AllInitializedNoneAcquired =>
        /\ Len(semaphore.global) = limit.global
        /\ Len(semaphore.ai) = limit.ai

(* --------------------------- record before enqueue --------------------- *)

\* the id that the pop of worker w returns in this step
PoppedId(w) ==
    jobId'[w]

\* C26 as stated: POST /jobs writes the whole record before it pushes the
\* id, so any id a worker pops has a non-empty videoUrl and status queued
\* at the moment of the pop.
\* An id that a retry timer pushed back has status queued:retry.
C26_QueuedAtPop ==
    [][\A w \in Workers :
          Pops(w) =>
              /\ job[PoppedId(w)].videoUrl # NoKey
              /\ job[PoppedId(w)].status = "queued"]_vars

\* C26: POST /jobs writes the whole record before it pushes the id, so
\* every id waiting on queue:high or queue:low has a record, and any id a
\* worker pops has at the moment of the pop a non-empty videoUrl and the
\* status queued if it is popped for the first time, queued:retry if it was
\* pushed back after a failed attempt.
C26_RecordBeforePop ==
    /\ [](\A j \in Members(queueHigh) \cup Members(queueLow) :
             /\ j \notin posting
             /\ job[j].videoUrl = VideoKey(j)
             /\ job[j].priority \in {"high", "low"})
    /\ [][\A w \in Workers :
             Pops(w) =>
                 /\ job[PoppedId(w)].videoUrl # NoKey
                 /\ job[PoppedId(w)].status =
                        IF attempts[PoppedId(w)] = 0 THEN "queued"
                        ELSE "queued:retry"]_vars

\* C26: a worker has popped an id for the first time while the record of
\* another request is written and its id not yet pushed
C26_Witness ==
    \E w \in Workers :
        /\ pc[w] = "sAdd"
        /\ attempts[jobId[w]] = 1
        /\ job[jobId[w]].status = "queued"
        /\ job[jobId[w]].videoUrl # NoKey
        /\ posting # {}

(* ------------------------ visibility in jobs:processing ---------------- *)

\* worker w is inside processJob(j), after its sAdd and not after its sRem
BetweenSAddAndSRem(w, j) ==
    /\ jobId[w] = j
    /\ pc[w] \in InProcessJob \ {"sAdd"}

\* C29: whenever a worker is executing processJob(j) between its sAdd and
\* its own sRem, j is a member of jobs:processing; the sRem that ends an
\* attempt of j is never executed while another worker is between the sAdd
\* and the sRem of a later attempt of j.
C29_ProcessingVisible ==
    /\ [](\A w \in Workers : \A j \in Jobs :
             BetweenSAddAndSRem(w, j) => j \in processing)
    /\ [][\A w, v \in Workers :
             (w # v /\ pc[w] = "sRem" /\ pc'[w] # "sRem") =>
                 ~BetweenSAddAndSRem(v, jobId[w])]_vars

\* C29: a worker is inside a later attempt of a job whose earlier attempt
\* failed in another worker, which has run its cleanup
C29_Witness ==
    \E w, v \in Workers : \E j \in Jobs :
        /\ w # v
        /\ jobId[w] = j /\ pc[w] = "release" /\ outcome[w] = "retry"
        /\ cleanup[w] = "done"
        /\ BetweenSAddAndSRem(v, j)
        /\ j \in processing

(* ------------------------------ single ownership ----------------------- *)

\* POST /jobs has written the record of j and pushed its id
Submitted(j) ==
    job[j].status # "" /\ j \notin posting

\* the workers executing processJob(j)
Owners(j) ==
    {w \in Workers : jobId[w] = j /\ pc[w] \in InProcessJob}

\* those of them that are in the cleanup of the finally block (line 224)
Cleaning(j) ==
    {w \in Owners(j) : pc[w] = "sRem"}

\* the places where j is, apart from the workers: the job queues, the
\* pending retry timers, queue:dlq, and the status completed
PlacesAtRest(j) ==
    Occurrences(queueHigh, j) + Occurrences(queueLow, j)
        + Cardinality({t \in timers : t.job = j})
        + Occurrences(queueDlq, j)
        + (IF job[j].status = "completed" THEN 1 ELSE 0)

Finished(j) ==
    job[j].status \in {"completed", "failed:dlq"}

JobsWaiting ==
    queueHigh # << >> \/ queueLow # << >>

\* C28: with a worker that keeps taking steps, finitely many submitted jobs
\* and transcribe calls that return or throw, every submitted job eventually
\* reaches completed or failed:dlq, every token taken for an attempt returns
\* to its list, and no worker stays blocked on semaphore:ai, or on
\* semaphore:global while jobs are waiting.
C28_Progress ==
    /\ \A j \in Jobs : Submitted(j) ~> Finished(j)
    /\ \A w \in Workers : holdsAi[w] ~> ~holdsAi[w]
    /\ \A w \in Workers : (pc[w] \in InProcessJob) ~> (pc[w] = "acquire")
    /\ \A w \in Workers : (pc[w] = "aiAcquire") ~> (pc[w] # "aiAcquire")
    /\ \A w \in Workers :
           (pc[w] = "acquire" /\ JobsWaiting) ~>
               (pc[w] # "acquire" \/ ~JobsWaiting)

=============================================================================
